---- MODULE Spec2Model ----
(***************************************************************************)
(* A model of the genealogy analysis program: the domain model builder,    *)
(* the validation engine and the analysis engine of gedcom_parser.py, and  *)
(* the line parser of reunion-ged-parser.py.                               *)
(*                                                                         *)
(* Dates are day numbers 1..MaxDate; 0 stands for Python's None.  Ids are  *)
(* strings; "None" stands for an absent id.  A dict is a sequence of its   *)
(* values in insertion order (Python dicts iterate in insertion order).    *)
(***************************************************************************)
EXTENDS Integers, Sequences, FiniteSets, TLC

\* ------------------------------------------------------------------ bounds
MaxDate == 2
MaxChildren == 1
MaxCalls == 2
\* the interpreter's recursion limit, scaled to the size of the graphs
RecursionLimit == 5
\* the lines of a file handed to the line parser
MaxLines == 4
\* the date texts handed to each date normalizer
MaxTexts == 2
\* the largest n asked of find_largest_families
MaxTop == 3

\* --------------------------------------------------------------- universes
None == "None"
NoDate == 0
Dates == 1..MaxDate
\* date.today(): a day inside the range, so that later days are in the future
Today == MaxDate - 1

Range(seq) == {seq[k] : k \in 1..Len(seq)}

\* the records of a file with dated events, for the validation engine
PersonIds == <<"I1", "I2">>
PersonIdSet == Range(PersonIds)
FamilyIds == <<"F1">>
\* the records of a file of plain individuals and families, for the analysis engine
GraphPersonIds == <<"I1", "I2", "I3">>
GraphFamilyIds == <<"F1", "F2">>
\* the family records of a file of families that differ in size
SizedFamilyIds == <<"F1", "F2", "F3">>

NoEvent == [present |-> FALSE, date |-> NoDate]
Event(d) == [present |-> TRUE, date |-> d]

\* The text of a DATE line as the element gives it: absent, text that no
\* pattern matches, or a day-month-year text that names day n.
RawDates == {[kind |-> "none", day |-> 0], [kind |-> "garbage", day |-> 0]}
              \cup {[kind |-> "dmy", day |-> n] : n \in Dates}
NoDetails == [present |-> FALSE, date |-> [kind |-> "none", day |-> 0]]
RawEvents == {NoDetails} \cup {[present |-> TRUE, date |-> r] : r \in RawDates}

\* A text is the sequence of its pieces: its words, and Blank for each blank
\* between or around them.  The name an element gives is None, a tuple of
\* parts (given name, surname), or a text.
Blank == " "
NoName == [kind |-> "none", parts |-> <<>>]
TupleName(parts) == [kind |-> "tuple", parts |-> parts]
StrName(pieces) == [kind |-> "str", parts |-> pieces]
PlainName == TupleName(<<"John", "Smith">>)
RawNames ==
    {NoName, PlainName, TupleName(<<"", "">>), TupleName(<<"Ann", "before">>),
     StrName(<<>>), StrName(<<Blank, Blank>>), StrName(<<"John", Blank, Blank, "Smith">>)}

RECURSIVE SeqsUpTo(_, _)
SeqsUpTo(S, n) ==
    IF n = 0 THEN {<<>>}
    ELSE LET shorter == SeqsUpTo(S, n - 1)
         IN  shorter \cup {Append(s, x) : s \in {t \in shorter : Len(t) = n - 1}, x \in S}

ChildLists == SeqsUpTo(PersonIdSet, MaxChildren)
GraphChildLists == SeqsUpTo(Range(GraphPersonIds), MaxChildren)
\* families_as_spouse / families_as_child of an Individual built by a caller
LinkLists == {<<>>} \cup {<<f>> : f \in Range(GraphFamilyIds)}

VARIABLES
    individuals,        \* GedcomData.individuals, in insertion order
    families,           \* GedcomData.families, in insertion order
    validation_issues,  \* GedcomParser.validation_issues
    issue_summary,      \* GedcomParser.issue_summary
    pc,                 \* "parse" while the builder runs, then "done"
    raised,             \* the exception the last operation ended with, or "none"
    issues_after_run,   \* what get_validation_issues() gave after each validate_data()
    summary,            \* what the last get_summary_statistics() returned
    span,               \* what the last analyze_generation_span() returned or raised
    lines_read,         \* the lines the line parser has been given, in order
    line_individuals,   \* the line parser's individuals, in insertion order
    line_families,      \* the line parser's families, in insertion order
    current_record,     \* the line parser's current_record: which record it is
    current_tag,        \* the line parser's current_tag
    parse_raised,       \* the exception that ended the line parser's parse(), or "none"
    analysis,           \* the last query of the analysis engine and what it gave
    dates_validated,    \* the texts given to _validate_date, each with its result
    dates_parsed        \* the texts given to the line parser's _parse_date, likewise

graph == <<individuals, families>>
validation == <<validation_issues, issue_summary, raised, issues_after_run, summary>>
lineparser == <<lines_read, line_individuals, line_families, current_record,
                current_tag, parse_raised>>
normalizer == <<dates_validated, dates_parsed>>
vars == <<individuals, families, validation_issues, issue_summary, pc, raised,
          issues_after_run, summary, span, lines_read, line_individuals,
          line_families, current_record, current_tag, parse_raised, analysis,
          dates_validated, dates_parsed>>

\* ------------------------------------------------------------- the mappings
HasKey(dict, id) == \E k \in 1..Len(dict) : dict[k].id = id
Get(dict, id) == dict[CHOOSE k \in 1..Len(dict) : dict[k].id = id]

\* dict[key] = value: an existing key keeps its place, a new one is appended
Put(dict, value) ==
    IF HasKey(dict, value.id)
    THEN [k \in 1..Len(dict) |-> IF dict[k].id = value.id THEN value ELSE dict[k]]
    ELSE Append(dict, value)

\* ------------------------------------------------------ domain model builder
\* ' '.join(words) and text.split()
RECURSIVE Join(_)
Join(words) ==
    IF Len(words) <= 1 THEN words
    ELSE <<words[1], Blank>> \o Join(Tail(words))

NotBlank(piece) == piece # Blank
NotEmpty(part) == part # ""
Split(text) == SelectSeq(text, NotBlank)

validate_name(name) ==
    IF name.kind = "none" \/ name.parts = <<>> THEN <<"Unknown">>
    ELSE IF name.kind = "tuple" THEN Join(SelectSeq(name.parts, NotEmpty))
    ELSE Join(Split(name.parts))

validate_date(raw) == IF raw.kind = "dmy" THEN raw.day ELSE NoDate

validate_event(details) ==
    IF ~details.present THEN NoEvent ELSE Event(validate_date(details.date))

\* _validate_id: an id that does not look like one becomes None
validate_id(id_str) == IF id_str \in Range(GraphPersonIds) THEN id_str ELSE None

NewIndividual(elem) ==
    [id |-> elem.pointer,
     name |-> validate_name(elem.name),
     birth |-> validate_event(elem.birth),
     death |-> validate_event(elem.death),
     families_as_spouse |-> <<>>,
     families_as_child |-> <<>>]

NewFamily(elem) ==
    [id |-> elem.pointer,
     husband_id |-> validate_id(elem.husb),
     wife_id |-> validate_id(elem.wife),
     children_ids |-> elem.chil,
     marriage |-> validate_event(elem.marr)]

\* ---------------------------------------------------------- validation engine
BirthDate(ind) == IF ind.birth.present THEN ind.birth.date ELSE NoDate
DeathDate(ind) == IF ind.death.present THEN ind.death.date ELSE NoDate
MarriageDate(fam) == IF fam.marriage.present THEN fam.marriage.date ELSE NoDate

Unknown == [id |-> "Unknown", name |-> <<>>, born |-> NoDate]
get_individual_info(inds, ind_id) ==
    IF ind_id # None /\ HasKey(inds, ind_id)
    THEN [id |-> ind_id, name |-> Get(inds, ind_id).name,
          born |-> BirthDate(Get(inds, ind_id))]
    ELSE Unknown

\* An issue text, by its parts:
\* "<subject> <id> (<name>) <father> <mother>: <detail> (<about>: <name>, <d1>, <d2>)"
IndividualIssue(ind, detail, d1, d2) ==
    [subject |-> "Individual", id |-> ind.id, name |-> ind.name,
     father |-> Unknown, mother |-> Unknown,
     detail |-> detail, about |-> None, d1 |-> d1, d2 |-> d2]

FamilyIssue(inds, fam, detail, about, d1, d2) ==
    [subject |-> "Family", id |-> fam.id,
     name |-> IF about # None THEN Get(inds, about).name ELSE <<>>,
     father |-> get_individual_info(inds, fam.husband_id),
     mother |-> get_individual_info(inds, fam.wife_id),
     detail |-> detail, about |-> about, d1 |-> d1, d2 |-> d2]

\* the birth-after-death comparison without its test that a death date is known
BirthAfterDeath_Unguarded(birth_date, death_date) ==
    birth_date # NoDate /\ birth_date > death_date

BirthAfterDeath(birth_date, death_date) ==
    birth_date # NoDate /\ death_date # NoDate /\ birth_date > death_date
DeathInFuture(death_date) == death_date # NoDate /\ death_date > Today
BirthInFuture(birth_date) == birth_date # NoDate /\ birth_date > Today

IndividualDateIssues(ind) ==
    LET birth_date == BirthDate(ind)
        death_date == DeathDate(ind)
    IN  (IF BirthAfterDeath(birth_date, death_date)
         THEN <<IndividualIssue(ind, "Birth date is after death date",
                                birth_date, death_date)>>
         ELSE <<>>)
        \o (IF DeathInFuture(death_date)
            THEN <<IndividualIssue(ind, "Death date is in the future",
                                   death_date, NoDate)>>
            ELSE <<>>)
        \o (IF BirthInFuture(birth_date)
            THEN <<IndividualIssue(ind, "Birth date is in the future",
                                   birth_date, NoDate)>>
            ELSE <<>>)

RECURSIVE validate_dates(_, _)
validate_dates(inds, k) ==
    IF k > Len(inds) THEN <<>>
    ELSE IndividualDateIssues(inds[k]) \o validate_dates(inds, k + 1)

FatherBornAfterChild(father_birth, child_birth) ==
    father_birth # NoDate /\ child_birth # NoDate /\ father_birth > child_birth

\* The loop over one family's children: the issues appended, and whether the
\* lookup individuals[child_id] raised KeyError
RECURSIVE FatherChildren(_, _, _, _)
FatherChildren(inds, fam, father_birth, k) ==
    IF k > Len(fam.children_ids) THEN [issues |-> <<>>, raised |-> FALSE]
    ELSE LET child_id == fam.children_ids[k]
         IN  IF ~HasKey(inds, child_id) THEN [issues |-> <<>>, raised |-> TRUE]
             ELSE LET child_birth == BirthDate(Get(inds, child_id))
                      rest == FatherChildren(inds, fam, father_birth, k + 1)
                      here == IF FatherBornAfterChild(father_birth, child_birth)
                              THEN <<FamilyIssue(inds, fam, "Father born after child",
                                                 child_id, child_birth, NoDate)>>
                              ELSE <<>>
                  IN  [issues |-> here \o rest.issues, raised |-> rest.raised]

FamilyRelationshipIssues(inds, fam) ==
    IF fam.husband_id = None THEN [issues |-> <<>>, raised |-> FALSE]
    ELSE IF ~HasKey(inds, fam.husband_id) THEN [issues |-> <<>>, raised |-> TRUE]
    ELSE FatherChildren(inds, fam, BirthDate(Get(inds, fam.husband_id)), 1)

RECURSIVE validate_family_relationships(_, _, _)
validate_family_relationships(inds, fams, k) ==
    IF k > Len(fams) THEN [issues |-> <<>>, raised |-> FALSE]
    ELSE LET here == FamilyRelationshipIssues(inds, fams[k])
         IN  IF here.raised THEN here
             ELSE LET rest == validate_family_relationships(inds, fams, k + 1)
                  IN  [issues |-> here.issues \o rest.issues, raised |-> rest.raised]

MarriageBeforeBirth(marriage_date, spouse_birth) ==
    spouse_birth # NoDate /\ marriage_date < spouse_birth
MarriageAfterChildBirth(marriage_date, child_birth) ==
    child_birth # NoDate /\ marriage_date > child_birth

SpouseMarriageIssues(inds, fam, marriage_date, spouse_id, detail) ==
    IF spouse_id # None /\ HasKey(inds, spouse_id)
       /\ MarriageBeforeBirth(marriage_date, BirthDate(Get(inds, spouse_id)))
    THEN <<FamilyIssue(inds, fam, detail, None, marriage_date, NoDate)>>
    ELSE <<>>

RECURSIVE ChildrenMarriageIssues(_, _, _, _)
ChildrenMarriageIssues(inds, fam, marriage_date, k) ==
    IF k > Len(fam.children_ids) THEN <<>>
    ELSE LET child_id == fam.children_ids[k]
             here == IF HasKey(inds, child_id)
                        /\ MarriageAfterChildBirth(marriage_date,
                                                   BirthDate(Get(inds, child_id)))
                     THEN <<FamilyIssue(inds, fam, "Marriage date after child's birth",
                                        child_id, marriage_date,
                                        BirthDate(Get(inds, child_id)))>>
                     ELSE <<>>
         IN  here \o ChildrenMarriageIssues(inds, fam, marriage_date, k + 1)

FamilyMarriageIssues(inds, fam) ==
    LET marriage_date == MarriageDate(fam)
    IN  IF marriage_date = NoDate THEN <<>>
        ELSE SpouseMarriageIssues(inds, fam, marriage_date, fam.husband_id,
                                  "Marriage date before husband's birth")
             \o SpouseMarriageIssues(inds, fam, marriage_date, fam.wife_id,
                                     "Marriage date before wife's birth")
             \o ChildrenMarriageIssues(inds, fam, marriage_date, 1)

RECURSIVE validate_marriage_dates(_, _, _)
validate_marriage_dates(inds, fams, k) ==
    IF k > Len(fams) THEN <<>>
    ELSE FamilyMarriageIssues(inds, fams[k]) \o validate_marriage_dates(inds, fams, k + 1)

\* The phrases _categorize_issue looks for, as texts
PhraseText(phrase) ==
    CASE phrase = "born after child" -> <<"born", Blank, "after", Blank, "child">>
      [] phrase = "Marriage date" -> <<"Marriage", Blank, "date">>
      [] phrase = "before" -> <<"before">>
      [] phrase = "after child's birth" -> <<"after", Blank, "child's", Blank, "birth">>

\* phrase in text
Contains(text, phrase) ==
    /\ Len(phrase) <= Len(text)
    /\ \E k \in 1..(Len(text) - Len(phrase) + 1) :
          \A i \in 1..Len(phrase) : text[k + i - 1] = phrase[i]

\* the phrases held by the words of the rule that wrote the issue
DetailPhrases(detail) ==
    CASE detail = "Father born after child" -> {"born after child"}
      [] detail = "Marriage date before husband's birth" -> {"Marriage date", "before"}
      [] detail = "Marriage date before wife's birth" -> {"Marriage date", "before"}
      [] detail = "Marriage date after child's birth" ->
             {"Marriage date", "after child's birth"}
      [] OTHER -> {}

\* phrase in issue: the text holds the phrase in the words of the rule that
\* wrote it, or in one of the names it quotes
InIssue(phrase, issue) ==
    \/ phrase \in DetailPhrases(issue.detail)
    \/ \E text \in {PhraseText(phrase)} :
          \/ Contains(issue.name, text)
          \/ Contains(issue.father.name, text)
          \/ Contains(issue.mother.name, text)

Categories == {"Parent born after child", "Marriage before birth",
               "Child born before marriage", "Other"}

categorize_issue(issue) ==
    IF InIssue("born after child", issue) THEN "Parent born after child"
    ELSE IF InIssue("Marriage date", issue) /\ InIssue("before", issue)
         THEN "Marriage before birth"
    ELSE IF InIssue("Marriage date", issue) /\ InIssue("after child's birth", issue)
         THEN "Child born before marriage"
    ELSE "Other"

\* The loop of validate_data over the whole issue list: one more per issue
RECURSIVE Categorized(_, _, _)
Categorized(counts, issues, k) ==
    IF k > Len(issues) THEN counts
    ELSE LET category == categorize_issue(issues[k])
         IN  Categorized([counts EXCEPT ![category] = @ + 1], issues, k + 1)

\* issue.split(' - ')[0].split(' ')[1]: the words of the text before its first
\* " - " are the subject and the id (the whole text, split at blanks, when it
\* holds no " - "), and the second one is taken
HeadWords(issue) == <<issue.subject, issue.id>>
SecondWord(issue) == HeadWords(issue)[2]

NoSummary == [valid |-> FALSE]

\* A quotient n / d * 100 as the pair of its numerator and denominator
Percent(n, d) == [num |-> n * 100, den |-> d]

percent_families_with_issues(issues, fams) ==
    IF fams # <<>>
    THEN Percent(Cardinality({SecondWord(issues[k]) : k \in 1..Len(issues)}), Len(fams))
    ELSE Percent(0, 1)

get_summary_statistics(inds, fams, issues, counts) ==
    [valid |-> TRUE,
     total_issues |-> Len(issues),
     issues_by_type |-> counts,
     total_individuals |-> Len(inds),
     total_families |-> Len(fams),
     percent_families_with_issues |-> percent_families_with_issues(issues, fams)]

\* ------------------------------------------------------------ analysis engine
Ok(v) == [err |-> "none", val |-> v]
Err(e) == [err |-> e, val |-> 0]
NotRun == [err |-> "not run", val |-> 0]

\* what a query gave: the value it returned, or the exception it raised
Returned(query, v) == [query |-> query, err |-> "none", val |-> v]
Raised(query, e) == [query |-> query, err |-> e, val |-> 0]
NotAnalysed == Returned("none", 0)

Max(a, b) == IF a >= b THEN a ELSE b
Min(a, b) == IF a <= b THEN a ELSE b

\* get_generation and the two loops of its comprehension.  A result is Ok(v)
\* or the exception that ended it; best is the largest child generation so
\* far, -1 while child_generations is empty.
RECURSIVE get_generation(_, _, _, _, _)
RECURSIVE ChildrenLoop(_, _, _, _, _, _, _)
RECURSIVE SpouseFamiliesLoop(_, _, _, _, _, _, _)

get_generation(inds, fams, individual_id, generation, depth) ==
    IF depth > RecursionLimit THEN Err("RecursionError")
    ELSE IF ~HasKey(inds, individual_id) THEN Err("KeyError")
    ELSE LET individual == Get(inds, individual_id)
             child_generations ==
                 SpouseFamiliesLoop(inds, fams, individual.families_as_spouse, 1,
                                    generation, depth, -1)
         IN  IF child_generations.err # "none" THEN child_generations
             ELSE IF child_generations.val = -1 THEN Ok(generation)
             ELSE child_generations

SpouseFamiliesLoop(inds, fams, family_ids, k, generation, depth, best) ==
    IF k > Len(family_ids) THEN Ok(best)
    ELSE IF ~HasKey(fams, family_ids[k]) THEN Err("KeyError")
    ELSE LET here == ChildrenLoop(inds, fams, Get(fams, family_ids[k]).children_ids, 1,
                                  generation, depth, best)
         IN  IF here.err # "none" THEN here
             ELSE SpouseFamiliesLoop(inds, fams, family_ids, k + 1, generation, depth,
                                     here.val)

ChildrenLoop(inds, fams, children_ids, k, generation, depth, best) ==
    IF k > Len(children_ids) THEN Ok(best)
    ELSE LET child == get_generation(inds, fams, children_ids[k], generation + 1,
                                     depth + 1)
         IN  IF child.err # "none" THEN child
             ELSE ChildrenLoop(inds, fams, children_ids, k + 1, generation, depth,
                               Max(best, child.val))

IsRoot(ind) == ind.families_as_child = <<>>

RECURSIVE RootsLoop(_, _, _, _)
RootsLoop(inds, fams, k, best) ==
    IF k > Len(inds) THEN Ok(best)
    ELSE IF ~IsRoot(inds[k]) THEN RootsLoop(inds, fams, k + 1, best)
    ELSE LET here == get_generation(inds, fams, inds[k].id, 0, 1)
         IN  IF here.err # "none" THEN here
             ELSE RootsLoop(inds, fams, k + 1, Max(best, here.val))

\* max() of no root at all raises ValueError
analyze_generation_span(inds, fams) ==
    LET deepest == RootsLoop(inds, fams, 1, -1)
    IN  IF deepest.err # "none" THEN deepest
        ELSE IF deepest.val = -1 THEN Err("ValueError")
        ELSE Ok(deepest.val + 1)

\* Counter(names) as a dict: each name with the number of times it occurs
Counter(names) ==
    [name \in Range(names) |-> Cardinality({k \in 1..Len(names) : names[k] = name})]

\* [individual.name.split()[0] for individual in individuals.values()], or
\* IndexError at the first name that has no word
RECURSIVE first_names(_, _)
first_names(inds, k) ==
    IF k > Len(inds) THEN Ok(<<>>)
    ELSE IF Split(inds[k].name) = <<>> THEN Err("IndexError")
    ELSE LET rest == first_names(inds, k + 1)
         IN  IF rest.err # "none" THEN rest
             ELSE Ok(<<Split(inds[k].name)[1]>> \o rest.val)

\* the same with name.split()[-1]
RECURSIVE surnames(_, _)
surnames(inds, k) ==
    IF k > Len(inds) THEN Ok(<<>>)
    ELSE IF Split(inds[k].name) = <<>> THEN Err("IndexError")
    ELSE LET rest == surnames(inds, k + 1)
             words == Split(inds[k].name)
         IN  IF rest.err # "none" THEN rest
             ELSE Ok(<<words[Len(words)]>> \o rest.val)

analyze_name_frequency(inds) ==
    LET names == first_names(inds, 1)
    IN  IF names.err # "none" THEN Raised("analyze_name_frequency", names.err)
        ELSE Returned("analyze_name_frequency", Counter(names.val))

analyze_surname_frequency(inds) ==
    LET names == surnames(inds, 1)
    IN  IF names.err # "none" THEN Raised("analyze_surname_frequency", names.err)
        ELSE Returned("analyze_surname_frequency", Counter(names.val))

\* [(fam.id, len(fam.children_ids)) for fam in families.values()]
id_and_size(fams) ==
    [k \in 1..Len(fams) |-> [id |-> fams[k].id, size |-> Len(fams[k].children_ids)]]

\* an insertion that puts the item before the items of its own size
RECURSIVE InsertBeforeEquals(_, _)
InsertBeforeEquals(largest_first, item) ==
    IF largest_first = <<>> THEN <<item>>
    ELSE IF Head(largest_first).size > item.size
         THEN <<Head(largest_first)>> \o InsertBeforeEquals(Tail(largest_first), item)
         ELSE <<item>> \o largest_first

\* sorted(families, key=lambda x: x[1], reverse=True): the sort is stable, an
\* item goes after the items that are as large, which came before it
RECURSIVE Insert(_, _)
Insert(largest_first, item) ==
    IF largest_first = <<>> THEN <<item>>
    ELSE IF Head(largest_first).size >= item.size
         THEN <<Head(largest_first)>> \o Insert(Tail(largest_first), item)
         ELSE <<item>> \o largest_first

RECURSIVE sorted(_, _)
sorted(items, k) ==
    IF k = 0 THEN <<>> ELSE Insert(sorted(items, k - 1), items[k])

\* sorted(...)[:n], n not negative
find_largest_families(fams, n) ==
    LET largest_first == sorted(id_and_size(fams), Len(fams))
    IN  SubSeq(largest_first, 1, Min(n, Len(largest_first)))

\* The ages one spouse of a family adds to its list, in days: none when the
\* family names no such spouse or the spouse's birth date is unknown, and
\* KeyError from individuals[spouse_id] when the id is not in the mapping
spouse_age(inds, marriage_date, spouse_id) ==
    IF spouse_id = None THEN Ok(<<>>)
    ELSE IF ~HasKey(inds, spouse_id) THEN Err("KeyError")
    ELSE LET spouse_birth == Get(inds, spouse_id).birth
         IN  IF spouse_birth.present /\ spouse_birth.date # NoDate
             THEN Ok(<<marriage_date - spouse_birth.date>>)
             ELSE Ok(<<>>)

\* the loop of analyze_marriage_age over the families: male_ages and female_ages
RECURSIVE marriage_ages(_, _, _, _, _)
marriage_ages(inds, fams, k, male_ages, female_ages) ==
    IF k > Len(fams) THEN [err |-> "none", male |-> male_ages, female |-> female_ages]
    ELSE IF ~(fams[k].marriage.present /\ fams[k].marriage.date # NoDate)
    THEN marriage_ages(inds, fams, k + 1, male_ages, female_ages)
    ELSE LET husband == spouse_age(inds, fams[k].marriage.date, fams[k].husband_id)
             wife == spouse_age(inds, fams[k].marriage.date, fams[k].wife_id)
         IN  IF husband.err # "none"
             THEN [err |-> husband.err, male |-> male_ages, female |-> female_ages]
             ELSE IF wife.err # "none"
             THEN [err |-> wife.err, male |-> male_ages \o husband.val,
                   female |-> female_ages]
             ELSE marriage_ages(inds, fams, k + 1, male_ages \o husband.val,
                                female_ages \o wife.val)

RECURSIVE sum(_)
sum(ages) == IF ages = <<>> THEN 0 ELSE ages[1] + sum(Tail(ages))

\* sum(ages) / len(ages) if ages else 0, as the pair of its two numbers
average(ages) ==
    IF ages # <<>> THEN [num |-> sum(ages), den |-> Len(ages)] ELSE [num |-> 0, den |-> 1]

analyze_marriage_age(inds, fams) ==
    LET ages == marriage_ages(inds, fams, 1, <<>>, <<>>)
    IN  IF ages.err # "none" THEN Raised("analyze_marriage_age", ages.err)
        ELSE Returned("analyze_marriage_age",
                      [male |-> average(ages.male), female |-> average(ages.female)])

\* [ind.birth.date for ind in individuals.values() if ind.birth and ind.birth.date]
RECURSIVE birth_dates(_, _)
birth_dates(inds, k) ==
    IF k > Len(inds) THEN <<>>
    ELSE (IF inds[k].birth.present /\ inds[k].birth.date # NoDate
          THEN <<inds[k].birth.date>> ELSE <<>>)
         \o birth_dates(inds, k + 1)

RECURSIVE death_dates(_, _)
death_dates(inds, k) ==
    IF k > Len(inds) THEN <<>>
    ELSE (IF inds[k].death.present /\ inds[k].death.date # NoDate
          THEN <<inds[k].death.date>> ELSE <<>>)
         \o death_dates(inds, k + 1)

\* min() and max() of a list that is not empty
RECURSIVE min(_)
min(dates) == IF Len(dates) = 1 THEN dates[1] ELSE Min(dates[1], min(Tail(dates)))
RECURSIVE max(_)
max(dates) == IF Len(dates) = 1 THEN dates[1] ELSE Max(dates[1], max(Tail(dates)))

\* min() of an empty list raises ValueError
date_range(query, dates) ==
    IF dates = <<>> THEN Raised(query, "ValueError")
    ELSE Returned(query, <<min(dates), max(dates)>>)

analyze_birth_date_range(inds) ==
    date_range("analyze_birth_date_range", birth_dates(inds, 1))
analyze_death_date_range(inds) ==
    date_range("analyze_death_date_range", death_dates(inds, 1))

\* ---------------------------------------------------------------- line parser
\* A line is the sequence of its words, the pieces between single blanks; a
\* tag or a value is a sequence of words too (a text with blanks in it).
Lines ==
    { <<"0", "@I1@", "INDI">>, <<"0", "@I2@", "INDI">>, <<"0", "@F1@", "FAM">>,
      <<"0", "HEAD">>,
      <<"1", "NAME", "John", "Smith">>, <<"1", "BIRT">>, <<"1", "DEAT">>,
      <<"1", "OCCU", "Farmer">>,
      <<"2", "DATE", "15", "JAN", "1900">>, <<"2", "DATE", "1900">>,
      <<"2", "PLAC", "Boston">>,
      <<"3", "NOTE", "x">>,
      <<>>, <<"1">>, <<"NAME", "John">> }

IsInt(word) == word \in {"0", "1", "2", "3"}
ToInt(word) == CASE word = "0" -> 0 [] word = "1" -> 1 [] word = "2" -> 2 [] word = "3" -> 3
StartsWithAt(word) == word \in {"@I1@", "@I2@", "@F1@"}
Rest(words, from) == SubSeq(words, from, Len(words))

\* datetime.strptime(text, "%d %b %Y").date() on the texts above
DayOf(word) == CASE word = "15" -> 15 [] word = "1" -> 1 [] OTHER -> 0
MonthOf(word) == CASE word = "JAN" -> 1 [] OTHER -> 0
YearOf(word) == CASE word = "1900" -> 1900 [] OTHER -> 0
IsDayMonthYear(text) ==
    /\ Len(text) = 3
    /\ DayOf(text[1]) # 0 /\ MonthOf(text[2]) # 0 /\ YearOf(text[3]) # 0

TextValue(text) == [parsed |-> FALSE, ymd |-> <<0, 0, 0>>, text |-> text]
DateValue(y, m, d) == [parsed |-> TRUE, ymd |-> <<y, m, d>>, text |-> <<>>]

\* _parse_date: the date, or the text itself when it does not parse
parse_date(date_string) ==
    IF IsDayMonthYear(date_string)
    THEN DateValue(YearOf(date_string[3]), MonthOf(date_string[2]), DayOf(date_string[1]))
    ELSE TextValue(date_string)

\* The date_str given to _validate_date: None, or a text by its words
NoText == [given |-> FALSE, words |-> <<>>]
Text(words) == [given |-> TRUE, words |-> words]
DateTexts ==
    { <<"15", "JAN", "1900">>, <<"1", "JAN", "1900">>, <<"JAN", "1900">>, <<"1900">>,
      <<"garbage">>, <<>> }
DateStrings == {NoText} \cup {Text(words) : words \in DateTexts}

\* strptime with "%b %Y" and with "%Y"
IsMonthYear(text) == Len(text) = 2 /\ MonthOf(text[1]) # 0 /\ YearOf(text[2]) # 0
IsYear(text) == Len(text) = 1 /\ YearOf(text[1]) # 0

\* what _validate_date returns: None or a date
NoneDate == [is_none |-> TRUE, ymd |-> <<0, 0, 0>>]
ADate(y, m, d) == [is_none |-> FALSE, ymd |-> <<y, m, d>>]

\* _validate_date on the text itself: the three formats tried in turn
validate_date_str(date_str) ==
    IF ~date_str.given \/ date_str.words = <<>> THEN NoneDate
    ELSE LET text == date_str.words
         IN  IF IsDayMonthYear(text)
             THEN ADate(YearOf(text[3]), MonthOf(text[2]), DayOf(text[1]))
             ELSE IF IsMonthYear(text) THEN ADate(YearOf(text[2]), MonthOf(text[1]), 1)
             ELSE IF IsYear(text) THEN ADate(YearOf(text[1]), 1, 1)
             ELSE NoneDate

NoRecord == [type |-> None, id |-> None]

\* record[tag] = value on a dict kept as the sequence of its items
SetField(fields, tag, event, value) ==
    LET item == [tag |-> tag, event |-> event, value |-> value]
    IN  IF \E k \in 1..Len(fields) : fields[k].tag = tag
        THEN [k \in 1..Len(fields) |-> IF fields[k].tag = tag THEN item ELSE fields[k]]
        ELSE Append(fields, item)

\* the same assignment made through current_record, which is the dict stored
\* in individuals or families under its id
SetInRecords(records, id, tag, event, value) ==
    [k \in 1..Len(records) |->
        IF records[k].id = id
        THEN [records[k] EXCEPT !.fields = SetField(@, tag, event, value)]
        ELSE records[k]]

\* parts = line.split(' ', 2) and what _parse_line reads from it
Splits(words) ==
    IF Len(words) = 0 \/ ~IsInt(words[1])
    THEN [err |-> "ValueError", level |-> 0, tag |-> <<>>, xref_id |-> None, value |-> <<>>]
    ELSE IF Len(words) > 2 /\ StartsWithAt(words[2])
    THEN [err |-> "none", level |-> ToInt(words[1]), tag |-> Rest(words, 3),
          xref_id |-> words[2], value |-> Rest(words, 3)]
    ELSE IF Len(words) < 2
    THEN [err |-> "IndexError", level |-> 0, tag |-> <<>>, xref_id |-> None, value |-> <<>>]
    ELSE [err |-> "none", level |-> ToInt(words[1]), tag |-> <<words[2]>>,
          xref_id |-> None, value |-> Rest(words, 3)]

Level1Tags == {"NAME", "SEX", "BIRT", "DEAT", "FAMS", "FAMC"}
EventTags == {"BIRT", "DEAT"}

handle_level_0(tag, xref_id) ==
    IF tag = <<"INDI">>
    THEN /\ current_record' = [type |-> "INDI", id |-> xref_id]
         /\ line_individuals' = Put(line_individuals,
                                    [id |-> xref_id, type |-> "INDI", fields |-> <<>>])
         /\ UNCHANGED <<line_families, current_tag>>
    ELSE IF tag = <<"FAM">>
    THEN /\ current_record' = [type |-> "FAM", id |-> xref_id]
         /\ line_families' = Put(line_families,
                                 [id |-> xref_id, type |-> "FAM", fields |-> <<>>])
         /\ UNCHANGED <<line_individuals, current_tag>>
    ELSE UNCHANGED <<line_individuals, line_families, current_record, current_tag>>

\* current_record[tag] = value, in whichever mapping holds the current record
AssignCurrent(tag, event, value) ==
    IF current_record.type = "INDI"
    THEN /\ line_individuals' = SetInRecords(line_individuals, current_record.id,
                                             tag, event, value)
         /\ UNCHANGED line_families
    ELSE /\ line_families' = SetInRecords(line_families, current_record.id,
                                          tag, event, value)
         /\ UNCHANGED line_individuals

handle_level_1(tag, value) ==
    IF current_record # NoRecord /\ Len(tag) = 1 /\ tag[1] \in Level1Tags
    THEN /\ current_tag' = tag[1]
         /\ IF tag[1] \notin EventTags
            THEN AssignCurrent(tag[1], FALSE, TextValue(value))
            ELSE UNCHANGED <<line_individuals, line_families>>
         /\ UNCHANGED current_record
    ELSE UNCHANGED <<line_individuals, line_families, current_record, current_tag>>

handle_level_2(tag, value) ==
    IF current_record # NoRecord /\ current_tag # None
       /\ current_tag \in EventTags /\ tag = <<"DATE">>
    THEN /\ AssignCurrent(current_tag, TRUE, parse_date(value))
         /\ UNCHANGED <<current_record, current_tag>>
    ELSE UNCHANGED <<line_individuals, line_families, current_record, current_tag>>

parse_line(words) ==
    LET parts == Splits(words)
    IN  IF parts.err # "none"
        THEN /\ parse_raised' = parts.err
             /\ UNCHANGED <<line_individuals, line_families, current_record, current_tag>>
        ELSE /\ parse_raised' = "none"
             /\ CASE parts.level = 0 -> handle_level_0(parts.tag, parts.xref_id)
                  [] parts.level = 1 -> handle_level_1(parts.tag, parts.value)
                  [] parts.level = 2 -> handle_level_2(parts.tag, parts.value)
                  [] OTHER -> UNCHANGED <<line_individuals, line_families,
                                          current_record, current_tag>>

\* ------------------------------------------------------------------- actions
Init ==
    /\ individuals = <<>>
    /\ families = <<>>
    /\ validation_issues = <<>>
    /\ issue_summary = [c \in Categories |-> 0]
    /\ pc = "parse"
    /\ raised = "none"
    /\ issues_after_run = <<>>
    /\ summary = NoSummary
    /\ span = NotRun
    /\ lines_read = <<>>
    /\ line_individuals = <<>>
    /\ line_families = <<>>
    /\ current_record = NoRecord
    /\ current_tag = None
    /\ parse_raised = "none"
    /\ analysis = NotAnalysed
    /\ dates_validated = <<>>
    /\ dates_parsed = <<>>

IndividualElements ==
    [pointer : PersonIdSet, name : {PlainName}, birth : RawEvents, death : RawEvents]

FamilyElements ==
    [pointer : {FamilyIds[k] : k \in 1..Len(FamilyIds)},
     husb : PersonIdSet \cup {None}, wife : PersonIdSet \cup {None},
     chil : ChildLists, marr : RawEvents]

PlainIndividualElements ==
    [pointer : Range(GraphPersonIds), name : {PlainName},
     birth : {NoDetails}, death : {NoDetails}]

PlainFamilyElements ==
    [pointer : Range(GraphFamilyIds),
     husb : Range(GraphPersonIds) \cup {None}, wife : Range(GraphPersonIds) \cup {None},
     chil : GraphChildLists, marr : {NoDetails}]

\* individual records that differ in the name they give
NamedIndividualElements ==
    [pointer : Range(GraphPersonIds), name : RawNames,
     birth : {NoDetails}, death : {NoDetails}]

\* individual records with a birth date, one of the names holding a word that
\* _categorize_issue looks for
QuotedIndividualElements ==
    [pointer : PersonIdSet, name : {PlainName, TupleName(<<"Ann", "before">>)},
     birth : RawEvents, death : {NoDetails}]

\* family records that differ in the number of their CHIL lines
SizedFamilyElements ==
    [pointer : Range(SizedFamilyIds), husb : {None}, wife : {None},
     chil : GraphChildLists, marr : {NoDetails}]

\* Individuals a caller of GedcomData builds, back-references included
LinkedIndividuals ==
    [id : Range(GraphPersonIds), name : {validate_name(PlainName)},
     birth : {NoEvent}, death : {NoEvent},
     families_as_spouse : LinkLists, families_as_child : LinkLists]

LinkedFamilies ==
    [id : Range(GraphFamilyIds), husband_id : {None}, wife_id : {None},
     children_ids : GraphChildLists, marriage : {NoEvent}]

\* GedcomData.add_individual / add_family, the ids taken in file order
add_individual(ids, inds) ==
    /\ pc = "parse"
    /\ Len(individuals) < Len(ids)
    /\ \E ind \in inds :
          /\ ind.id = ids[Len(individuals) + 1]
          /\ individuals' = Put(individuals, ind)
    /\ UNCHANGED <<families, pc, validation, span, analysis, lineparser, normalizer>>

add_family(ids, fams) ==
    /\ pc = "parse"
    /\ Len(families) < Len(ids)
    /\ \E fam \in fams :
          /\ fam.id = ids[Len(families) + 1]
          /\ families' = Put(families, fam)
    /\ UNCHANGED <<individuals, pc, validation, span, analysis, lineparser, normalizer>>

\* parse(): the next individual record of the file
ParseIndividual ==
    add_individual(PersonIds, {NewIndividual(elem) : elem \in IndividualElements})

\* parse(): the next family record of the file
ParseFamily ==
    add_family(FamilyIds, {NewFamily(elem) : elem \in FamilyElements})

ParsePlainIndividual ==
    add_individual(GraphPersonIds, {NewIndividual(elem) : elem \in PlainIndividualElements})

ParsePlainFamily ==
    add_family(GraphFamilyIds, {NewFamily(elem) : elem \in PlainFamilyElements})

AddIndividual == add_individual(GraphPersonIds, LinkedIndividuals)

AddFamily == add_family(GraphFamilyIds, LinkedFamilies)

AnalyzeGenerationSpan ==
    /\ span' = analyze_generation_span(individuals, families)
    /\ pc' = "done"
    /\ UNCHANGED <<graph, validation, analysis, lineparser, normalizer>>

ParseNamedIndividual ==
    add_individual(GraphPersonIds,
                   {NewIndividual(elem) : elem \in NamedIndividualElements})

ParseQuotedIndividual ==
    add_individual(PersonIds, {NewIndividual(elem) : elem \in QuotedIndividualElements})

ParseSizedFamily ==
    add_family(SizedFamilyIds, {NewFamily(elem) : elem \in SizedFamilyElements})

\* find_largest_families(n); the n asked for is kept with the list returned
FindLargestFamilies ==
    /\ \E n \in 0..MaxTop :
          analysis' = Returned("find_largest_families",
                               [n |-> n, largest |-> find_largest_families(families, n)])
    /\ pc' = "done"
    /\ UNCHANGED <<graph, validation, span, lineparser, normalizer>>

AnalyzeMarriageAge ==
    /\ analysis' = analyze_marriage_age(individuals, families)
    /\ pc' = "done"
    /\ UNCHANGED <<graph, validation, span, lineparser, normalizer>>

AnalyzeNameFrequency ==
    /\ analysis' = analyze_name_frequency(individuals)
    /\ pc' = "done"
    /\ UNCHANGED <<graph, validation, span, lineparser, normalizer>>

AnalyzeSurnameFrequency ==
    /\ analysis' = analyze_surname_frequency(individuals)
    /\ pc' = "done"
    /\ UNCHANGED <<graph, validation, span, lineparser, normalizer>>

AnalyzeBirthDateRange ==
    /\ analysis' = analyze_birth_date_range(individuals)
    /\ pc' = "done"
    /\ UNCHANGED <<graph, validation, span, lineparser, normalizer>>

AnalyzeDeathDateRange ==
    /\ analysis' = analyze_death_date_range(individuals)
    /\ pc' = "done"
    /\ UNCHANGED <<graph, validation, span, lineparser, normalizer>>

\* validate_data(), the definition in force (the second one of the class)
ValidateData ==
    /\ Len(issues_after_run) < MaxCalls
    /\ \E from_dates \in {validate_dates(individuals, 1)},
          from_relationships \in {validate_family_relationships(individuals, families, 1)} :
          IF from_relationships.raised
          THEN /\ validation_issues' =
                     validation_issues \o from_dates \o from_relationships.issues
               /\ raised' = "KeyError"
               /\ UNCHANGED issue_summary
          ELSE \E all_issues \in {validation_issues \o from_dates
                                     \o from_relationships.issues
                                     \o validate_marriage_dates(individuals, families, 1)} :
                  /\ validation_issues' = all_issues
                  /\ raised' = "none"
                  /\ issue_summary' = Categorized(issue_summary, all_issues, 1)
    /\ issues_after_run' = Append(issues_after_run, validation_issues')
    /\ pc' = "done"
    /\ summary' = NoSummary
    /\ UNCHANGED <<graph, span, analysis, lineparser, normalizer>>

GetSummaryStatistics ==
    /\ summary' = get_summary_statistics(individuals, families, validation_issues,
                                         issue_summary)
    /\ pc' = "done"
    /\ UNCHANGED <<graph, validation_issues, issue_summary, raised, issues_after_run,
                   span, analysis, lineparser, normalizer>>

Next == ParseIndividual \/ ParseFamily \/ ValidateData \/ GetSummaryStatistics

\* parse() of the line parser: the next line of the file; an exception ends it
ParseLine ==
    /\ parse_raised = "none"
    /\ Len(lines_read) < MaxLines
    /\ \E words \in Lines :
          /\ lines_read' = Append(lines_read, words)
          /\ parse_line(words)
    /\ UNCHANGED <<graph, pc, validation, span, analysis, normalizer>>

ValidateDate ==
    /\ Len(dates_validated) < MaxTexts
    /\ \E date_str \in DateStrings :
          dates_validated' = Append(dates_validated,
                                    [date_str |-> date_str,
                                     result |-> validate_date_str(date_str)])
    /\ UNCHANGED <<graph, pc, validation, span, analysis, lineparser, dates_parsed>>

ParseDate ==
    /\ Len(dates_parsed) < MaxTexts
    /\ \E date_string \in DateTexts :
          dates_parsed' = Append(dates_parsed,
                                 [date_string |-> date_string,
                                  result |-> parse_date(date_string)])
    /\ UNCHANGED <<graph, pc, validation, span, analysis, lineparser, dates_validated>>

\* parse, then validate and summarise: the pipeline of the program's main part
Spec == Init /\ [][Next]_vars

\* parse, then validate, once or again
NextValidate == ParseIndividual \/ ParseFamily \/ ValidateData
SpecValidate == Init /\ [][NextValidate]_vars

\* parse a file of plain records, then ask for the generation span
NextParse == ParsePlainIndividual \/ ParsePlainFamily \/ AnalyzeGenerationSpan
SpecParse == Init /\ [][NextParse]_vars

\* a graph built through GedcomData, then asked for the generation span
NextGraph == AddIndividual \/ AddFamily \/ AnalyzeGenerationSpan
SpecGraph == Init /\ [][NextGraph]_vars

\* parse a file of individuals, then ask for the ranges of their dates
NextRanges == ParseIndividual \/ AnalyzeBirthDateRange \/ AnalyzeDeathDateRange
SpecRanges == Init /\ [][NextRanges]_vars

\* parse a file of named individuals, then ask for the name frequencies
NextNames == ParseNamedIndividual \/ AnalyzeNameFrequency \/ AnalyzeSurnameFrequency
SpecNames == Init /\ [][NextNames]_vars

\* the two date normalizers given texts
NextDates == ValidateDate \/ ParseDate
SpecDates == Init /\ [][NextDates]_vars

\* parse a file whose names differ, then validate
NextCategories == ParseQuotedIndividual \/ ParseFamily \/ ValidateData
SpecCategories == Init /\ [][NextCategories]_vars

\* parse a file of families, then ask for the largest ones
NextLargest == ParseSizedFamily \/ FindLargestFamilies
SpecLargest == Init /\ [][NextLargest]_vars

\* parse a file of individuals and a family, then ask for the marriage ages
NextMarriage == ParseQuotedIndividual \/ ParseFamily \/ AnalyzeMarriageAge
SpecMarriage == Init /\ [][NextMarriage]_vars

\* the line parser reading a file
NextLines == ParseLine
SpecLines == Init /\ [][NextLines]_vars

\* ===================================================================== claims
Resolved(event) == event.present /\ event.date # NoDate
Present(id) == id # None /\ HasKey(individuals, id)
BirthKnown(id) == Present(id) /\ Resolved(Get(individuals, id).birth)
IssuesWith(fam_id, detail, about) ==
    {k \in 1..Len(validation_issues) :
        /\ validation_issues[k].subject = "Family"
        /\ validation_issues[k].id = fam_id
        /\ validation_issues[k].detail = detail
        /\ validation_issues[k].about = about}

\* C1: a second validate_data() on the same parser and unmodified graph leaves
\* get_validation_issues() giving the same ordered list as after the run before
C1_RerunGivesSameIssues ==
    \A k \in 1..Len(issues_after_run) :
        k > 1 => issues_after_run[k] = issues_after_run[k - 1]

\* the parent-to-child steps analyze_generation_span follows
LinkChildren(id) ==
    IF ~HasKey(individuals, id) THEN {}
    ELSE {c \in Range(GraphPersonIds) :
            \E f \in Range(Get(individuals, id).families_as_spouse) :
                HasKey(families, f) /\ c \in Range(Get(families, f).children_ids)}

RECURSIVE ReachableIn(_, _, _)
ReachableIn(Children(_), from, steps) ==
    IF steps = 0 THEN {}
    ELSE LET near == Children(from)
         IN  near \cup UNION {ReachableIn(Children, c, steps - 1) : c \in near}

LinkCycle ==
    \E k \in 1..Len(individuals) :
        individuals[k].id \in ReachableIn(LinkChildren, individuals[k].id,
                                          Len(GraphPersonIds))

\* C2: on a graph whose parent-to-child links hold a cycle, whether or not a
\* root reaches it, analyze_generation_span() returns a depth or signals the
\* cycle; it does not fail
C2_SpanEndsOnCycle ==
    (span # NotRun /\ LinkCycle) => span.err \in {"none", "CycleDetected"}

Unresolved(fam) ==
    \/ fam.husband_id # None /\ ~HasKey(individuals, fam.husband_id)
    \/ fam.wife_id # None /\ ~HasKey(individuals, fam.wife_id)
    \/ \E k \in 1..Len(fam.children_ids) : ~HasKey(individuals, fam.children_ids[k])

\* C3: with a husband, wife or child id that names no individual,
\* validate_data() does not raise, and the marriage rules of every family are
\* still evaluated
C3_UnresolvedReferenceIsAbsent ==
    (issues_after_run # <<>> /\ \E k \in 1..Len(families) : Unresolved(families[k]))
        => /\ raised = "none"
           /\ Range(validate_marriage_dates(individuals, families, 1))
                 \subseteq Range(validation_issues)

IssueDatesKnown(issue) ==
    CASE issue.detail = "Birth date is after death date" ->
             /\ Resolved(Get(individuals, issue.id).birth)
             /\ Resolved(Get(individuals, issue.id).death)
      [] issue.detail = "Death date is in the future" ->
             Resolved(Get(individuals, issue.id).death)
      [] issue.detail = "Birth date is in the future" ->
             Resolved(Get(individuals, issue.id).birth)
      [] issue.detail = "Father born after child" ->
             /\ BirthKnown(Get(families, issue.id).husband_id)
             /\ BirthKnown(issue.about)
      [] issue.detail = "Marriage date before husband's birth" ->
             /\ Resolved(Get(families, issue.id).marriage)
             /\ BirthKnown(Get(families, issue.id).husband_id)
      [] issue.detail = "Marriage date before wife's birth" ->
             /\ Resolved(Get(families, issue.id).marriage)
             /\ BirthKnown(Get(families, issue.id).wife_id)
      [] issue.detail = "Marriage date after child's birth" ->
             /\ Resolved(Get(families, issue.id).marriage)
             /\ BirthKnown(issue.about)
      [] OTHER -> FALSE

\* C4: no issue comes from an absent date: every issue in the list compares
\* two dates that are both known (one known date, for the two future rules), so
\* an individual without a death date has no birth-after-death and no
\* future-death issue
C4_NoIssueFromAbsentDate ==
    \A k \in 1..Len(validation_issues) : IssueDatesKnown(validation_issues[k])

\* validate_data() has run on a graph in which one individual has no death
\* event and a birth in the future, another has a death event without a date,
\* and a family with a dated marriage has a husband whose birth date is unknown
C4_Witness ==
    /\ issues_after_run # <<>>
    /\ \E i, j \in 1..Len(individuals) :
          /\ ~individuals[i].death.present
          /\ BirthDate(individuals[i]) > Today
          /\ individuals[j].death.present /\ individuals[j].death.date = NoDate
          /\ ~Resolved(individuals[j].birth)
          /\ \E f \in 1..Len(families) :
                /\ families[f].husband_id = individuals[j].id
                /\ families[f].children_ids = <<individuals[i].id>>
                /\ Resolved(families[f].marriage)
    /\ \E k \in 1..Len(validation_issues) :
          validation_issues[k].detail = "Birth date is in the future"

\* C5: after a validate_data() that ran to its end, each family and each child
\* of it with a known birth date has a father issue iff the husband's known
\* birth date is later than the child's, and a mother issue iff the wife's is
C5_EachParentChecked ==
    (issues_after_run # <<>> /\ raised = "none") =>
        \A f \in 1..Len(families) : \A c \in Range(families[f].children_ids) :
            BirthKnown(c) =>
                LET fam == families[f]
                    child_birth == BirthDate(Get(individuals, c))
                    Later(parent) == /\ BirthKnown(parent)
                                     /\ BirthDate(Get(individuals, parent)) > child_birth
                IN  /\ IssuesWith(fam.id, "Father born after child", c) # {}
                          <=> Later(fam.husband_id)
                    /\ IssuesWith(fam.id, "Mother born after child", c) # {}
                          <=> Later(fam.wife_id)

\* C6: after one validate_data(), each family with a known marriage date and
\* each child of it present with a known birth date has exactly one
\* child-before-marriage issue if the marriage is later than the birth, and
\* none otherwise
C6_OneIssuePerEarlyChild ==
    Len(issues_after_run) = 1 =>
        \A f \in 1..Len(families) : \A c \in Range(families[f].children_ids) :
            (Resolved(families[f].marriage) /\ BirthKnown(c)) =>
                Cardinality(IssuesWith(families[f].id,
                                       "Marriage date after child's birth", c))
                  = IF MarriageDate(families[f]) > BirthDate(Get(individuals, c))
                    THEN 1 ELSE 0

\* the children of the families in which an individual is husband or wife
RecordedChildren(id) ==
    {c \in Range(GraphPersonIds) :
        /\ HasKey(individuals, c)
        /\ \E f \in 1..Len(families) :
              /\ id \in {families[f].husband_id, families[f].wife_id}
              /\ c \in Range(families[f].children_ids)}

RecordedCycle ==
    \E k \in 1..Len(individuals) :
        individuals[k].id \in ReachableIn(RecordedChildren, individuals[k].id,
                                          Len(GraphPersonIds))

SetMax(S) == CHOOSE x \in S : \A y \in S : y <= x

RECURSIVE LongestChain(_, _)
LongestChain(id, steps) ==
    IF steps = 0 \/ RecordedChildren(id) = {} THEN 0
    ELSE 1 + SetMax({LongestChain(c, steps - 1) : c \in RecordedChildren(id)})

\* C7: on an acyclic graph with an individual in it, analyze_generation_span()
\* returns 1 plus the steps of the longest chain that starts at an individual
\* with no families_as_child and goes from a spouse of a family to a child of it
C7_SpanIsLongestChain ==
    (span # NotRun /\ individuals # <<>> /\ ~RecordedCycle) =>
        span = Ok(1 + SetMax({0} \cup
                     {LongestChain(individuals[k].id, Len(GraphPersonIds)) :
                        k \in {j \in 1..Len(individuals) : IsRoot(individuals[j])}}))

\* C8: once the builder has processed all records, families_as_spouse of each
\* individual holds the families that record it as husband or wife, and
\* families_as_child those that record it as a child
C8_MembershipLinksResolved ==
    pc = "done" =>
        \A i \in 1..Len(individuals) : \A f \in 1..Len(families) :
            /\ individuals[i].id \in {families[f].husband_id, families[f].wife_id}
                  => families[f].id \in Range(individuals[i].families_as_spouse)
            /\ individuals[i].id \in Range(families[f].children_ids)
                  => families[f].id \in Range(individuals[i].families_as_child)

FamiliesWithIssues ==
    {families[f].id : f \in {g \in 1..Len(families) :
        \E k \in 1..Len(validation_issues) :
            /\ validation_issues[k].subject = "Family"
            /\ validation_issues[k].id = families[g].id}}

\* C9: percent_families_with_issues is the number of distinct families named
\* by an issue over the number of families, times 100, hence at most 100, and
\* 0 when there is no family
C9_PercentCountsFamilies ==
    summary.valid =>
        /\ summary.percent_families_with_issues =
              IF families = <<>> THEN Percent(0, 1)
              ELSE Percent(Cardinality(FamiliesWithIssues), Len(families))
        /\ summary.percent_families_with_issues.num
              <= 100 * summary.percent_families_with_issues.den

\* a line as the lexer is specified: level, optional id, tag, the rest as value
LexTag(words) == IF StartsWithAt(words[2]) THEN words[3] ELSE words[2]
LexValue(words) == IF StartsWithAt(words[2]) THEN Rest(words, 4) ELSE Rest(words, 3)
LexLevel(words) == ToInt(words[1])
Lexable(words) ==
    /\ Len(words) >= 2
    /\ IsInt(words[1])
    /\ StartsWithAt(words[2]) => Len(words) >= 3

WellFormed(lines) ==
    /\ \A k \in 1..Len(lines) : Lexable(lines[k])
    /\ lines # <<>> => LexLevel(lines[1]) = 0
    /\ \A k \in 1..Len(lines) : k > 1 => LexLevel(lines[k]) <= LexLevel(lines[k - 1]) + 1

Pair(tag, value) == [tag |-> tag, value |-> value]

RECURSIVE InputPairs(_, _)
InputPairs(lines, k) ==
    IF k > Len(lines) THEN <<>>
    ELSE <<Pair(LexTag(lines[k]), TextValue(LexValue(lines[k])))>>
            \o InputPairs(lines, k + 1)

\* the depth-first flattening of what the line parser built: each record, then
\* its items in order, an event item followed by its DATE
RECURSIVE FlattenFields(_, _)
FlattenFields(fields, k) ==
    IF k > Len(fields) THEN <<>>
    ELSE (IF fields[k].event
          THEN <<Pair(fields[k].tag, TextValue(<<>>)), Pair("DATE", fields[k].value)>>
          ELSE <<Pair(fields[k].tag, fields[k].value)>>)
         \o FlattenFields(fields, k + 1)

RECURSIVE FlattenRecords(_, _)
FlattenRecords(records, k) ==
    IF k > Len(records) THEN <<>>
    ELSE <<Pair(records[k].type, TextValue(<<>>))>>
            \o FlattenFields(records[k].fields, 1)
            \o FlattenRecords(records, k + 1)

\* C10: for well-formed lines whose level rises by at most 1 from a line to
\* the next, the structure built holds every line once, and its depth-first
\* flattening is the (tag, value) pairs of the lines, in their order
C10_FlatteningGivesTheLines ==
    WellFormed(lines_read) =>
        FlattenRecords(line_individuals, 1) \o FlattenRecords(line_families, 1)
            = InputPairs(lines_read, 1)

\* a line that does not split into a numeric level and a tag
Malformed(words) == Len(words) < 2 \/ ~IsInt(words[1])

\* C11: a line that has no numeric level and tag is skipped: the parse does not
\* abort on it, so that every later line can still be read
C11_MalformedLineIsSkipped ==
    (\E k \in 1..Len(lines_read) : Malformed(lines_read[k])) => parse_raised = "none"
ResolvedDates(Of(_)) ==
    {Of(individuals[k]).date : k \in {j \in 1..Len(individuals) : Resolved(Of(individuals[j]))}}
BirthOf(ind) == ind.birth
DeathOf(ind) == ind.death
SetMin(S) == CHOOSE x \in S : \A y \in S : x <= y

RangeOrNoData(dates) ==
    /\ analysis.err = "none"
    /\ IF dates = {} THEN analysis.val = "no data"
       ELSE analysis.val = <<SetMin(dates), SetMax(dates)>>

\* C12: analyze_birth_date_range() and analyze_death_date_range() return the
\* least and the greatest of the resolved birth (death) dates, and a "no data"
\* value, without failing, when no individual has such a date
C12_DateRangeOrNoData ==
    /\ analysis.query = "analyze_birth_date_range" => RangeOrNoData(ResolvedDates(BirthOf))
    /\ analysis.query = "analyze_death_date_range" => RangeOrNoData(ResolvedDates(DeathOf))
\* C13: every individual of the graph has a name with a word in it, whatever
\* name its record gave, so that the first and the last word that
\* analyze_name_frequency() and analyze_surname_frequency() take are defined
C13_NameIsNeverEmpty ==
    /\ \A k \in 1..Len(individuals) : Split(individuals[k].name) # <<>>
    /\ analysis.query \in {"analyze_name_frequency", "analyze_surname_frequency"}
          => analysis.err = "none"
\* the form of a date text: which pattern it matches, if any
Form(date_str) ==
    IF ~date_str.given \/ date_str.words = <<>> THEN "absent"
    ELSE IF IsDayMonthYear(date_str.words) THEN "exact"
    ELSE IF IsMonthYear(date_str.words) THEN "month"
    ELSE IF IsYear(date_str.words) THEN "year"
    ELSE "unparsed"

\* C14: date normalization gives results that tell the forms apart: a
\* month-year or bare-year text does not give the result of an exact date, a
\* text that matches no form does not give the result of an absent date, and
\* month-year and bare-year texts are parsed, not left as text
C14_NormalizedDatesTellFormsApart ==
    /\ \A i, j \in 1..Len(dates_validated) :
          Form(dates_validated[i].date_str) # Form(dates_validated[j].date_str)
              => dates_validated[i].result # dates_validated[j].result
    /\ \A k \in 1..Len(dates_parsed) :
          Form(Text(dates_parsed[k].date_string)) \in {"month", "year"}
              => dates_parsed[k].result.parsed
\* the bucket of the rule that wrote an issue
RuleBucket(detail) ==
    CASE detail = "Father born after child" -> "Parent born after child"
      [] detail = "Marriage date before husband's birth" -> "Marriage before birth"
      [] detail = "Marriage date before wife's birth" -> "Marriage before birth"
      [] detail = "Marriage date after child's birth" -> "Child born before marriage"
      [] OTHER -> "Other"

\* C15: after one validate_data() that ran to its end, each bucket of the
\* summary counts the issues written by the rules of that bucket, whatever
\* names the issues quote
C15_BucketFollowsRule ==
    (Len(issues_after_run) = 1 /\ raised = "none") =>
        \A c \in Categories :
            issue_summary[c] =
                Cardinality({k \in 1..Len(validation_issues) :
                                RuleBucket(validation_issues[k].detail) = c})
Position(fam_id) == CHOOSE k \in 1..Len(families) : families[k].id = fam_id
SizeOf(fam_id) == Len(families[Position(fam_id)].children_ids)
ReturnedIds == {analysis.val.largest[k].id : k \in 1..Len(analysis.val.largest)}
NotReturnedIds == {families[k].id : k \in 1..Len(families)} \ ReturnedIds

\* C16: find_largest_families(n) returns min(n, number of families) distinct
\* families, each with its number of children, largest first; none of them is
\* smaller than a family left out; and among families of equal size the one
\* inserted earlier comes first and is the one returned
C16_LargestFamiliesStable ==
    analysis.query = "find_largest_families" =>
        LET n == analysis.val.n
            largest == analysis.val.largest
        IN  /\ Len(largest) = Min(n, Len(families))
            /\ Cardinality(ReturnedIds) = Len(largest)
            /\ \A k \in 1..Len(largest) :
                  /\ HasKey(families, largest[k].id)
                  /\ largest[k].size = SizeOf(largest[k].id)
            /\ \A i, j \in 1..Len(largest) :
                  i < j => /\ largest[i].size >= largest[j].size
                           /\ largest[i].size = largest[j].size
                                 => Position(largest[i].id) < Position(largest[j].id)
            /\ \A i \in 1..Len(largest) : \A left_out \in NotReturnedIds :
                  /\ largest[i].size >= SizeOf(left_out)
                  /\ largest[i].size = SizeOf(left_out)
                        => Position(largest[i].id) < Position(left_out)

\* find_largest_families(n) has left a family out, has returned two families
\* of equal size, and has put a family before one inserted earlier
C16_Witness ==
    /\ analysis.query = "find_largest_families"
    /\ NotReturnedIds # {}
    /\ \E i, j \in 1..Len(analysis.val.largest) :
          /\ i < j
          /\ analysis.val.largest[i].size = analysis.val.largest[j].size
    /\ \E i \in 1..Len(analysis.val.largest) : \E left_out \in NotReturnedIds :
          Position(left_out) < Position(analysis.val.largest[i].id)
\* C17: the queries of the analysis engine do not raise on a graph with
\* unresolved references: analyze_marriage_age() skips a husband or wife id
\* that names no individual, and analyze_generation_span() takes a child id or
\* a family id that is not in its mapping as not found
C17_QueriesTolerateUnresolved ==
    /\ analysis.query = "analyze_marriage_age" => analysis.err = "none"
    /\ span # NotRun => span.err # "KeyError"
\* the last of the lines whose level is at most the given one, 0 if none
LastAtMost(lines, level) ==
    LET found == {k \in 1..Len(lines) : Lexable(lines[k]) /\ LexLevel(lines[k]) <= level}
    IN  IF found = {} THEN 0 ELSE SetMax(found)

\* the record opened by the nearest level-0 line, if it opens an individual or
\* a family
Owner(lines) ==
    LET k == LastAtMost(lines, 0)
    IN  IF k = 0 THEN NoRecord
        ELSE IF LexTag(lines[k]) \notin {"INDI", "FAM"} THEN NoRecord
        ELSE [type |-> LexTag(lines[k]),
              id |-> IF StartsWithAt(lines[k][2]) THEN lines[k][2] ELSE None]

Owned(record, lines) == Owner(lines) = [type |-> record.type, id |-> record.id]

\* this step reads a line of one of the levels
ReadsLevel(levels) ==
    /\ Len(lines_read') = Len(lines_read) + 1
    /\ Lexable(lines_read'[Len(lines_read')])
    /\ LexLevel(lines_read'[Len(lines_read')]) \in levels

\* C18: a level-1 or level-2 line changes no individual and no family other
\* than the one opened by the nearest level-0 line before it; after a level-0
\* line that opens neither, it changes none
C18_OnlyTheOpenRecordChanges ==
    [][ReadsLevel({1, 2}) =>
          /\ \A k \in 1..Len(line_individuals) :
                ~Owned(line_individuals[k], lines_read)
                    => line_individuals'[k] = line_individuals[k]
          /\ \A k \in 1..Len(line_families) :
                ~Owned(line_families[k], lines_read)
                    => line_families'[k] = line_families[k]]_vars

\* the nearest line of level 1 or lower is a level-1 BIRT or DEAT line
UnderEvent(lines) ==
    LET k == LastAtMost(lines, 1)
    IN  /\ k # 0
        /\ LexLevel(lines[k]) = 1
        /\ LexTag(lines[k]) \in EventTags

\* C19: a level-2 line changes a record (sets a birth or death date) only
\* when the nearest line of level 1 or lower before it is a level-1 BIRT or
\* DEAT line, and that record is the one the nearest level-0 line opened
C19_DateNeedsItsEvent ==
    [][ReadsLevel({2}) =>
          /\ \A k \in 1..Len(line_individuals) :
                line_individuals'[k] # line_individuals[k]
                    => UnderEvent(lines_read) /\ Owned(line_individuals[k], lines_read)
          /\ \A k \in 1..Len(line_families) :
                line_families'[k] # line_families[k]
                    => UnderEvent(lines_read) /\ Owned(line_families[k], lines_read)]_vars
RECURSIVE SumOver(_, _)
SumOver(counts, buckets) ==
    IF buckets = {} THEN 0
    ELSE LET c == CHOOSE b \in buckets : TRUE
         IN  counts[c] + SumOver(counts, buckets \ {c})

\* C20: after one or more validate_data() calls the summary agrees with the
\* issue list: the counts of issues_by_type add up to total_issues, and each
\* bucket counts the issues of the list that categorize to it
C20_SummaryAgreesWithIssues ==
    (summary.valid /\ issues_after_run # <<>>) =>
        /\ SumOver(summary.issues_by_type, Categories) = summary.total_issues
        /\ \A c \in Categories :
              summary.issues_by_type[c] =
                  Cardinality({k \in 1..Len(validation_issues) :
                                  categorize_issue(validation_issues[k]) = c})
====
